---- MODULE Spec2Model ----
(***************************************************************************)
(* RiverSense (src/App.tsx): the WKT parser, the bounds and label          *)
(* placement functions, and the App component's state machine              *)
(* (processWKT, its 200 ms timer callback, the label effect, the input     *)
(* handlers).                                                              *)
(*                                                                         *)
(* Strings are sequences of one-character strings.  A JavaScript number    *)
(* is a record [k, n, d]: k = "num" is the rational n/d (d > 0, lowest     *)
(* terms), k = "nan" is NaN, k = "undef" is the value undefined.  The      *)
(* model's alphabet has no ".", "e" or "x", so the decimal integers are    *)
(* all the numeric tokens it can spell; floating-point rounding is not     *)
(* modelled.                                                               *)
(***************************************************************************)
EXTENDS Integers, Sequences, FiniteSets, TLC

VARIABLES riverData, labelResult, text, wktInput, fontSize, isProcessing,
          error, timers, effectDue, pin, pout

appVars == <<riverData, labelResult, text, wktInput, fontSize, isProcessing,
             error, timers, effectDue>>
pureVars == <<pin, pout>>
vars == <<riverData, labelResult, text, wktInput, fontSize, isProcessing,
          error, timers, effectDue, pin, pout>>

----------------------------------------------------------------------------
(* Bounds of the model *)

\* longest point sequence handed to the pure functions
MaxPts == 5
\* most timer callbacks pending at once
MaxPending == 2

----------------------------------------------------------------------------
(* JavaScript values *)

Null == [k |-> "null"]
NaN == [k |-> "nan", n |-> 0, d |-> 1]
Undefined == [k |-> "undef", n |-> 0, d |-> 1]
Num(i) == [k |-> "num", n |-> i, d |-> 1]

IsNum(v) == v.k = "num"

Abs(i) == IF i < 0 THEN -i ELSE i

RECURSIVE Gcd(_, _)
Gcd(a, b) == IF b = 0 THEN a ELSE Gcd(b, a % b)

\* the rational a/b, b > 0, in lowest terms
Rat(a, b) ==
    LET g == Gcd(Abs(a), b)
    IN  [k |-> "num", n |-> a \div g, d |-> b \div g]

\* a + b of JavaScript: NaN or undefined on either side gives NaN
JsAdd(a, b) ==
    IF IsNum(a) /\ IsNum(b) THEN Rat(a.n * b.d + b.n * a.d, a.d * b.d) ELSE NaN

\* a - b
JsSub(a, b) ==
    IF IsNum(a) /\ IsNum(b) THEN Rat(a.n * b.d - b.n * a.d, a.d * b.d) ELSE NaN

\* a / len, len a positive array length
JsDivLen(a, len) ==
    IF IsNum(a) THEN Rat(a.n, a.d * len) ELSE NaN

\* a <= b of JavaScript: false when either side is NaN or undefined
JsLeq(a, b) == IsNum(a) /\ IsNum(b) /\ a.n * b.d <= b.n * a.d

\* a === 0
JsIsZero(a) == IsNum(a) /\ a.n = 0

\* Math.min(...vs) and Math.max(...vs) of a non-empty array: NaN as soon as
\* one argument is NaN or undefined
MathMin(vs) ==
    IF \E i \in 1..Len(vs) : ~IsNum(vs[i]) THEN NaN
    ELSE vs[CHOOSE i \in 1..Len(vs) : \A j \in 1..Len(vs) : JsLeq(vs[i], vs[j])]

MathMax(vs) ==
    IF \E i \in 1..Len(vs) : ~IsNum(vs[i]) THEN NaN
    ELSE vs[CHOOSE i \in 1..Len(vs) : \A j \in 1..Len(vs) : JsLeq(vs[j], vs[i])]

----------------------------------------------------------------------------
(* String primitives used by parseWKTPolygon *)

WhiteSpace == {" ", "\n", "\t"}
Digits == <<"0", "1", "2", "3", "4", "5", "6", "7", "8", "9">>
DigitSet == {Digits[i] : i \in 1..10}
DigitValue(c) == (CHOOSE i \in 1..10 : Digits[i] = c) - 1

\* String.prototype.trim
Trim(s) ==
    IF \A i \in 1..Len(s) : s[i] \in WhiteSpace THEN <<>>
    ELSE LET first == CHOOSE i \in 1..Len(s) :
                         s[i] \notin WhiteSpace
                         /\ \A j \in 1..(i - 1) : s[j] \in WhiteSpace
             back == CHOOSE k \in 1..Len(s) :
                         s[Len(s) + 1 - k] \notin WhiteSpace
                         /\ \A j \in 1..(k - 1) : s[Len(s) + 1 - j] \in WhiteSpace
         IN  SubSeq(s, first, Len(s) + 1 - back)

\* mutant: the regular expression without its i flag
UpperCase_NoIFlag(c) == c

\* the i flag of the regular expression: letters compare by upper case
UpperCase(c) ==
    CASE c = "p" -> "P" [] c = "o" -> "O" [] c = "l" -> "L" [] c = "y" -> "Y"
      [] c = "g" -> "G" [] c = "n" -> "N" [] OTHER -> c

Keyword == <<"P", "O", "L", "Y", "G", "O", "N">>

\* .replace(/^POLYGON\s*\(\(/i, ''): the prefix goes when it matches
StripPrefix(s) ==
    IF Len(s) >= 7 /\ \A i \in 1..7 : UpperCase(s[i]) = Keyword[i]
    THEN LET ws == CHOOSE k \in 0..(Len(s) - 7) :
                       /\ \A j \in 8..(7 + k) : s[j] \in WhiteSpace
                       /\ (7 + k = Len(s) \/ s[8 + k] \notin WhiteSpace)
         IN  IF Len(s) >= 9 + ws /\ s[8 + ws] = "(" /\ s[9 + ws] = "("
             THEN SubSeq(s, 10 + ws, Len(s))
             ELSE s
    ELSE s

\* .replace(/\)\)$/i, ''): a closing "))" at the very end goes
StripSuffix(s) ==
    IF Len(s) >= 2 /\ s[Len(s)] = ")" /\ s[Len(s) - 1] = ")"
    THEN SubSeq(s, 1, Len(s) - 2)
    ELSE s

\* .split(','): always at least one fragment
RECURSIVE SplitComma(_)
SplitComma(s) ==
    IF \A i \in 1..Len(s) : s[i] # "," THEN <<s>>
    ELSE LET i == CHOOSE i \in 1..Len(s) :
                      s[i] = "," /\ \A j \in 1..(i - 1) : s[j] # ","
         IN  <<SubSeq(s, 1, i - 1)>> \o SplitComma(SubSeq(s, i + 1, Len(s)))

\* .split(/\s+/) of a trimmed string: the empty string gives one empty token
RECURSIVE SplitSpaces(_)
SplitSpaces(s) ==
    IF \A i \in 1..Len(s) : s[i] \notin WhiteSpace THEN <<s>>
    ELSE LET i == CHOOSE i \in 1..Len(s) :
                      s[i] \in WhiteSpace
                      /\ \A j \in 1..(i - 1) : s[j] \notin WhiteSpace
         IN  <<SubSeq(s, 1, i - 1)>> \o SplitSpaces(Trim(SubSeq(s, i, Len(s))))

RECURSIVE DigitsValue(_)
DigitsValue(ds) ==
    IF ds = <<>> THEN 0
    ELSE 10 * DigitsValue(SubSeq(ds, 1, Len(ds) - 1)) + DigitValue(ds[Len(ds)])

\* Number(token): "" is 0, an optionally signed run of digits is its value,
\* anything else the alphabet can spell is NaN
Number(tok) ==
    IF tok = <<>> THEN Num(0)
    ELSE LET signed == tok[1] \in {"-", "+"}
             body == IF signed THEN Tail(tok) ELSE tok
         IN  IF body # <<>> /\ \A i \in 1..Len(body) : body[i] \in DigitSet
             THEN Num((IF tok[1] = "-" THEN -1 ELSE 1) * DigitsValue(body))
             ELSE NaN

----------------------------------------------------------------------------
(* The pure functions of App.tsx *)

\* pair => { const [x, y] = pair.trim().split(/\s+/).map(Number); ... }
ParsePair(pair) ==
    LET toks == SplitSpaces(Trim(pair))
    IN  [x |-> Number(toks[1]),
         y |-> IF Len(toks) >= 2 THEN Number(toks[2]) ELSE Undefined]

\* .map(pair => ...) over the fragments
RECURSIVE MapPairs(_)
MapPairs(pairs) ==
    IF pairs = <<>> THEN <<>>
    ELSE <<ParsePair(Head(pairs))>> \o MapPairs(Tail(pairs))

parseWKTPolygon(wkt) ==
    LET cleaned == StripSuffix(StripPrefix(Trim(wkt)))
    IN  MapPairs(SplitComma(cleaned))

\* mutant: maxY taken from the x projection
getBounds_MaxYFromXs(points) ==
    LET xs == [i \in 1..Len(points) |-> points[i].x]
        ys == [i \in 1..Len(points) |-> points[i].y]
        minX == MathMin(xs)
        maxX == MathMax(xs)
        minY == MathMin(ys)
        maxY == MathMax(xs)
    IN  [minX |-> minX, minY |-> minY, maxX |-> maxX, maxY |-> maxY,
         width |-> JsSub(maxX, minX), height |-> JsSub(maxY, minY)]

getBounds(points) ==
    LET xs == [i \in 1..Len(points) |-> points[i].x]
        ys == [i \in 1..Len(points) |-> points[i].y]
        minX == MathMin(xs)
        maxX == MathMax(xs)
        minY == MathMin(ys)
        maxY == MathMax(ys)
    IN  [minX |-> minX, minY |-> minY, maxX |-> maxX, maxY |-> maxY,
         width |-> JsSub(maxX, minX), height |-> JsSub(maxY, minY)]

\* points.reduce((s, p) => s + p.x, 0) and the same for y
RECURSIVE SumX(_)
SumX(points) ==
    IF points = <<>> THEN Num(0)
    ELSE JsAdd(SumX(SubSeq(points, 1, Len(points) - 1)), points[Len(points)].x)

RECURSIVE SumY(_)
SumY(points) ==
    IF points = <<>> THEN Num(0)
    ELSE JsAdd(SumY(SubSeq(points, 1, Len(points) - 1)), points[Len(points)].y)

\* mutant: a closed ring's repeated closing vertex is left out of the mean
findOptimalLabelPosition_OpenRing(points, txt, size) ==
    LET open == IF Len(points) > 1 /\ points[1] = points[Len(points)]
                THEN SubSeq(points, 1, Len(points) - 1) ELSE points
    IN  [position |-> [x |-> JsDivLen(SumX(open), Len(open)),
                       y |-> JsDivLen(SumY(open), Len(open))],
         rotation |-> 0,
         actualFontSize |-> size,
         textWidth |-> size * 6,
         textHeight |-> size,
         isInside |-> TRUE]

findOptimalLabelPosition(points, txt, size) ==
    [position |-> [x |-> JsDivLen(SumX(points), Len(points)),
                   y |-> JsDivLen(SumY(points), Len(points))],
     rotation |-> 0,
     actualFontSize |-> size,
     textWidth |-> size * 6,
     textHeight |-> size,
     isInside |-> TRUE]

----------------------------------------------------------------------------
(* WKT texts: the inputs of the model *)

RECURSIVE NatToChars(_)
NatToChars(i) ==
    IF i < 10 THEN <<Digits[i + 1]>>
    ELSE NatToChars(i \div 10) \o <<Digits[(i % 10) + 1]>>

\* the decimal spelling of an integer
IntToChars(i) == IF i < 0 THEN <<"-">> \o NatToChars(-i) ELSE NatToChars(i)

\* the layouts of a well-formed POLYGON((...)) text: the layout of the sample
\* of loadSample; lower case with a space before the ring and bare commas;
\* mixed case with wide gaps and surrounding white space
WktStyles == {"sample", "lower", "loose"}

StyleOpen(style) ==
    CASE style = "sample" -> <<"P", "O", "L", "Y", "G", "O", "N", "(", "(">>
      [] style = "lower" -> <<"p", "o", "l", "y", "g", "o", "n", " ", "(", "(">>
      [] OTHER -> <<"\n", " ", "P", "o", "l", "y", "G", "o", "n", "\t", " ", "(", "(">>

StyleComma(style) ==
    CASE style = "sample" -> <<",", " ">>
      [] style = "lower" -> <<",">>
      [] OTHER -> <<" ", ",", "\n", " ">>

StyleGap(style) == IF style = "loose" THEN <<" ", "\t">> ELSE <<" ">>

StyleClose(style) == IF style = "loose" THEN <<")", ")", " ", "\n">> ELSE <<")", ")">>

\* the ring text "x1 y1, x2 y2, ..." of a sequence of <<x token, y token>>
RECURSIVE RingText(_, _)
RingText(pairs, style) ==
    IF pairs = <<>> THEN <<>>
    ELSE LET one == pairs[1][1] \o StyleGap(style) \o pairs[1][2]
         IN  IF Len(pairs) = 1 THEN one
             ELSE one \o StyleComma(style) \o RingText(Tail(pairs), style)

WktOfTokens(pairs, style) ==
    StyleOpen(style) \o RingText(pairs, style) \o StyleClose(style)

\* the well-formed text of a sequence of integer points <<x, y>>
WellFormedWKT(coords, style) ==
    WktOfTokens([i \in 1..Len(coords) |->
                    <<IntToChars(coords[i][1]), IntToChars(coords[i][2])>>], style)

Pt(coord) == [x |-> Num(coord[1]), y |-> Num(coord[2])]
PointsOf(coords) == [i \in 1..Len(coords) |-> Pt(coords[i])]

----------------------------------------------------------------------------
(* The pure functions applied to bounded inputs *)

\* the corners of the 10 x 10 square and one point with a negative and a
\* two-digit coordinate
PureCoords == {<<0, 0>>, <<10, 0>>, <<10, 10>>, <<0, 10>>, <<-3, 25>>}

PureInputs == UNION {[1..n -> PureCoords] : n \in 1..MaxPts}

PureTexts == {"COLORADO RIVER", "NILE"}
PureSizes == {12, 24}

NoOutput == [op |-> "none"]


----------------------------------------------------------------------------
(* The App component *)

\* the literal of loadSample
SampleCoords ==
    <<(<<100, 100>>), (<<250, 80>>), (<<400, 120>>), (<<550, 90>>),
      (<<700, 130>>), (<<750, 110>>), (<<780, 160>>), (<<700, 180>>),
      (<<550, 140>>), (<<400, 170>>), (<<250, 130>>), (<<100, 150>>),
      (<<80, 120>>), (<<100, 100>>)>>
sampleWKT == WellFormedWKT(SampleCoords, "sample")

\* a concave four-point ring
ChevronWKT == WellFormedWKT(<<(<<0, 0>>), (<<1, 2>>), (<<2, 0>>), (<<1, 3>>)>>, "sample")
\* two points only
TwoPointWKT == WellFormedWKT(<<(<<0, 0>>), (<<1, 1>>)>>, "sample")
\* three points on the line x = 0
FlatWKT == WellFormedWKT(<<(<<0, 0>>), (<<0, 1>>), (<<0, 2>>)>>, "lower")
\* POLYGON((0 0, abc 1, 2 2))
BadTokenWKT ==
    WktOfTokens(<<(<<(<<"0">>), (<<"0">>)>>), (<<(<<"a", "b", "c">>), (<<"1">>)>>),
                  (<<(<<"2">>), (<<"2">>)>>)>>, "sample")
\* white space only
BlankText == <<" ", "\n">>

\* The texts the model feeds the App, each under a name: the state holds the
\* name, the code under test gets the characters.
TextOf(id) ==
    CASE id = "sample" -> sampleWKT
      [] id = "chevron" -> ChevronWKT
      [] id = "twopoint" -> TwoPointWKT
      [] id = "flat" -> FlatWKT
      [] id = "badtoken" -> BadTokenWKT
      [] id = "blank" -> BlankText
      [] OTHER -> <<>>

\* parseWKTPolygon(wkt) for each text of the model, evaluated once
ParsedSample == parseWKTPolygon(sampleWKT)
ParsedChevron == parseWKTPolygon(ChevronWKT)
ParsedTwoPoint == parseWKTPolygon(TwoPointWKT)
ParsedFlat == parseWKTPolygon(FlatWKT)
ParsedBadToken == parseWKTPolygon(BadTokenWKT)
ParsedBlank == parseWKTPolygon(BlankText)
ParsedEmpty == parseWKTPolygon(<<>>)
ParsedText(id) ==
    CASE id = "sample" -> ParsedSample
      [] id = "chevron" -> ParsedChevron
      [] id = "twopoint" -> ParsedTwoPoint
      [] id = "flat" -> ParsedFlat
      [] id = "badtoken" -> ParsedBadToken
      [] id = "blank" -> ParsedBlank
      [] OTHER -> ParsedEmpty

\* what the user types into the textarea, and what an uploaded file holds
TypedTexts == {"twopoint", "flat", "badtoken", "blank"}
FileContents == {"chevron"}
FileNames == {"river.wkt"}

\* what the user types into the label box, before toUpperCase
TypedLabels == {"nile", "COLORADO RIVER"}
toUpperCase(t) == IF t = "nile" THEN "NILE" ELSE t

DefaultFontSize == 24
SliderMax == 80
SliderValues == {DefaultFontSize, SliderMax}

NoError == "null"
FormatMsg == "WKT must be a valid POLYGON format."
DegenerateMsg == "Polygon has zero area or height."
ParseFailMsg == "Failed to parse WKT string."
EmptyMsg == "Please paste WKT or upload a file."

\* mutant: two points are enough
TimeoutResult_TwoPoints(wkt, sourceName, err) ==
    LET points == ParsedText(wkt)
        bounds == getBounds(points)
    IN  IF Len(points) >= 2
        THEN IF JsIsZero(bounds.width) \/ JsIsZero(bounds.height)
             THEN [riverData |-> Null, error |-> DegenerateMsg]
             ELSE [riverData |-> [name |-> sourceName, points |-> points,
                                  bounds |-> bounds],
                   error |-> err]
        ELSE [riverData |-> Null, error |-> FormatMsg]

\* mutant: degenerate only when both the width and the height are zero
TimeoutResult_BothZero(wkt, sourceName, err) ==
    LET points == ParsedText(wkt)
        bounds == getBounds(points)
    IN  IF Len(points) >= 3
        THEN IF JsIsZero(bounds.width) /\ JsIsZero(bounds.height)
             THEN [riverData |-> Null, error |-> DegenerateMsg]
             ELSE [riverData |-> [name |-> sourceName, points |-> points,
                                  bounds |-> bounds],
                   error |-> err]
        ELSE [riverData |-> Null, error |-> FormatMsg]

\* the body of the setTimeout callback: the riverData and the error it leaves,
\* err being the error before it.  parseWKTPolygon and getBounds throw on no
\* string, so the catch branch (ParseFailMsg) is never taken.
TimeoutResult(wkt, sourceName, err) ==
    LET points == ParsedText(wkt)
        bounds == getBounds(points)
    IN  IF Len(points) >= 3
        THEN IF JsIsZero(bounds.width) \/ JsIsZero(bounds.height)
             THEN [riverData |-> Null, error |-> DegenerateMsg]
             ELSE [riverData |-> [name |-> sourceName, points |-> points,
                                  bounds |-> bounds],
                   error |-> err]
        ELSE [riverData |-> Null, error |-> FormatMsg]

\* processWKT up to its setTimeout: the callback is queued with its closure
processWKT(wkt, sourceName) ==
    /\ Len(timers) < MaxPending
    /\ isProcessing' = TRUE
    /\ error' = NoError
    /\ labelResult' = Null
    /\ timers' = Append(timers, [wkt |-> wkt, sourceName |-> sourceName])
    /\ UNCHANGED <<riverData, text, fontSize, effectDue>>

\* The timers all have the delay 200, so they fire in the order they were set.
\* A set state that replaces riverData by a new object, or by null when it was
\* not, changes a dependency of the label effect.
TimerFires ==
    /\ ~effectDue
    /\ timers # <<>>
    /\ LET r == TimeoutResult(Head(timers).wkt, Head(timers).sourceName, error)
       IN  /\ riverData' = r.riverData
           /\ error' = r.error
           /\ effectDue' = (r.riverData # Null \/ riverData # Null)
    /\ isProcessing' = FALSE
    /\ timers' = Tail(timers)
    /\ UNCHANGED <<labelResult, text, wktInput, fontSize, pureVars>>

\* useEffect(..., [riverData, text, fontSize]): runs after the commit that
\* changed a dependency, and before any later update is processed
LabelEffect ==
    /\ effectDue
    /\ labelResult' = IF riverData # Null
                      THEN findOptimalLabelPosition(riverData.points, text, fontSize)
                      ELSE labelResult
    /\ effectDue' = FALSE
    /\ UNCHANGED <<riverData, text, wktInput, fontSize, isProcessing, error,
                   timers, pureVars>>

\* textarea onChange
SetWktInput ==
    /\ ~effectDue
    /\ \E w \in TypedTexts : w # wktInput /\ wktInput' = w
    /\ UNCHANGED <<riverData, labelResult, text, fontSize, isProcessing, error,
                   timers, effectDue, pureVars>>

\* reader.onload of handleFileUpload
FileLoaded ==
    /\ ~effectDue
    /\ \E content \in FileContents, name \in FileNames :
          /\ wktInput' = content
          /\ processWKT(content, name)
    /\ UNCHANGED pureVars

loadSample ==
    /\ ~effectDue
    /\ wktInput' = "sample"
    /\ processWKT("sample", "Sample_River.wkt")
    /\ UNCHANGED pureVars

\* mutant: the empty-input path clears the render as the callback's error paths do
handleRunClick_ClearsRender ==
    /\ ~effectDue
    /\ IF Trim(TextOf(wktInput)) # <<>>
       THEN processWKT(wktInput, "Manual Entry")
       ELSE /\ error' = EmptyMsg
            /\ riverData' = Null
            /\ UNCHANGED <<labelResult, text, fontSize, isProcessing,
                           timers, effectDue>>
    /\ UNCHANGED <<wktInput, pureVars>>

handleRunClick ==
    /\ ~effectDue
    /\ IF Trim(TextOf(wktInput)) # <<>>
       THEN processWKT(wktInput, "Manual Entry")
       ELSE /\ error' = EmptyMsg
            /\ UNCHANGED <<riverData, labelResult, text, fontSize, isProcessing,
                           timers, effectDue>>
    /\ UNCHANGED <<wktInput, pureVars>>

\* label box onChange
SetText ==
    /\ ~effectDue
    /\ \E t \in TypedLabels :
          /\ toUpperCase(t) # text
          /\ text' = toUpperCase(t)
    /\ effectDue' = TRUE
    /\ UNCHANGED <<riverData, labelResult, wktInput, fontSize, isProcessing, error,
                   timers, pureVars>>

\* size slider onChange
SetFontSize ==
    /\ ~effectDue
    /\ \E v \in SliderValues : v # fontSize /\ fontSize' = v
    /\ effectDue' = TRUE
    /\ UNCHANGED <<riverData, labelResult, text, wktInput, isProcessing, error,
                   timers, pureVars>>

AppInit ==
    /\ riverData = Null
    /\ labelResult = Null
    /\ text = "COLORADO RIVER"
    /\ wktInput = "empty"
    /\ fontSize = DefaultFontSize
    /\ isProcessing = FALSE
    /\ error = NoError
    /\ timers = <<>>
    /\ effectDue = FALSE

InitPure ==
    /\ AppInit
    /\ pin \in PureInputs
    /\ pout = NoOutput

\* parseWKTPolygon on the well-formed text of the points, in one of the layouts
PureParse ==
    /\ pout = NoOutput
    /\ \E style \in WktStyles :
          pout' = [op |-> "parse", style |-> style,
                   points |-> parseWKTPolygon(WellFormedWKT(pin, style))]
    /\ UNCHANGED <<pin, appVars>>

PureBounds ==
    /\ pout = NoOutput
    /\ pout' = [op |-> "bounds", bounds |-> getBounds(PointsOf(pin))]
    /\ UNCHANGED <<pin, appVars>>

PureLabel ==
    /\ pout = NoOutput
    /\ \E txt \in PureTexts, size \in PureSizes :
          pout' = [op |-> "label", size |-> size,
                   result |-> findOptimalLabelPosition(PointsOf(pin), txt, size)]
    /\ UNCHANGED <<pin, appVars>>

NextPure == PureParse \/ PureBounds \/ PureLabel

SpecPure == InitPure /\ [][NextPure]_vars


Init ==
    /\ AppInit
    /\ pin = <<>>
    /\ pout = NoOutput

Next ==
    \/ TimerFires
    \/ LabelEffect
    \/ SetWktInput
    \/ FileLoaded
    \/ loadSample
    \/ handleRunClick
    \/ SetText
    \/ SetFontSize

Spec == Init /\ [][Next]_vars

----------------------------------------------------------------------------
(* Properties of the pure functions, under SpecPure *)

\* C1: a well-formed POLYGON((x1 y1, ..., xn yn)) text with n >= 3 points, in
\* any letter case and layout, parses to exactly the n points, in order and
\* with the same coordinate values.
C1_ParseRoundTrip ==
    (pout.op = "parse" /\ Len(pin) >= 3) => pout.points = PointsOf(pin)

C1_Witness ==
    /\ pout.op = "parse"
    /\ pout.style = "lower"
    /\ Len(pin) = 5
    /\ pin[2] = <<-3, 25>>
    /\ Len(pout.points) = 5
    /\ pout.points[2] = [x |-> Num(-3), y |-> Num(25)]

\* C2: the bounds of a non-empty sequence of real points enclose every point,
\* each extremum is attained, and width = maxX - minX, height = maxY - minY,
\* both non-negative.
C2_BoundsEnclose ==
    pout.op = "bounds" =>
        LET b == pout.bounds
            n == Len(pin)
        IN  /\ \A f \in {"minX", "maxX", "minY", "maxY", "width", "height"} :
                  IsNum(b[f]) /\ b[f].d = 1
            /\ \A i \in 1..n : /\ b.minX.n <= pin[i][1] /\ pin[i][1] <= b.maxX.n
                               /\ b.minY.n <= pin[i][2] /\ pin[i][2] <= b.maxY.n
            /\ \E i \in 1..n : pin[i][1] = b.minX.n
            /\ \E i \in 1..n : pin[i][1] = b.maxX.n
            /\ \E i \in 1..n : pin[i][2] = b.minY.n
            /\ \E i \in 1..n : pin[i][2] = b.maxY.n
            /\ b.width.n = b.maxX.n - b.minX.n
            /\ b.height.n = b.maxY.n - b.minY.n
            /\ b.width.n >= 0 /\ b.height.n >= 0

C2_Witness ==
    /\ pout.op = "bounds"
    /\ Len(pin) = 3
    /\ pout.bounds.minX = Num(-3) /\ pout.bounds.maxX = Num(10)
    /\ pout.bounds.width = Num(13) /\ pout.bounds.height = Num(25)

\* the sum of the k-th coordinates, as an integer
RECURSIVE CoordSum(_, _)
CoordSum(coords, k) ==
    IF coords = <<>> THEN 0 ELSE coords[1][k] + CoordSum(Tail(coords), k)

ClosedSquare == <<(<<0, 0>>), (<<10, 0>>), (<<10, 10>>), (<<0, 10>>), (<<0, 0>>)>>

\* C3: the label position is the unweighted mean of all n vertices
\* (n * x = sum of the x, n * y = sum of the y), a repeated closing vertex
\* counted like any other: the ring (0 0, 10 0, 10 10, 0 10, 0 0) gives (4, 4).
C3_CentroidIsMean ==
    pout.op = "label" =>
        LET pos == pout.result.position
            n == Len(pin)
        IN  /\ IsNum(pos.x) /\ IsNum(pos.y)
            /\ n * pos.x.n = CoordSum(pin, 1) * pos.x.d
            /\ n * pos.y.n = CoordSum(pin, 2) * pos.y.d
            /\ (pin = ClosedSquare => pos = [x |-> Num(4), y |-> Num(4)])

C3_Witness ==
    /\ pout.op = "label"
    /\ pin = ClosedSquare
    /\ pout.result.position = [x |-> Num(4), y |-> Num(4)]

----------------------------------------------------------------------------
(* Properties of the App component, under Spec *)

\* a step in which the oldest pending callback of processWKT runs
TimerStep == timers # <<>> /\ timers' = Tail(timers)

\* what the callback about to run parses its text to
HeadPoints == ParsedText(Head(timers).wkt)

AllNumeric(points) ==
    \A i \in 1..Len(points) : IsNum(points[i].x) /\ IsNum(points[i].y)

\* all vertices share one x (f = "x") or one y (f = "y")
SameCoord(points, f) ==
    \A i \in 1..Len(points) : IsNum(points[i][f]) /\ points[i][f] = points[1][f]

\* at least three real points that span a box of positive width and height
ValidPolygon(points) ==
    /\ Len(points) >= 3
    /\ AllNumeric(points)
    /\ ~SameCoord(points, "x")
    /\ ~SameCoord(points, "y")

\* C4: when the callback runs on a text that parses to fewer than 3 points, the
\* error is the invalid-format message and riverData is null afterwards,
\* whatever it held before.
C4_TooFewPoints ==
    [][TimerStep
         => (Len(HeadPoints) < 3 => (error' = FormatMsg /\ riverData' = Null))]_vars

C4_Witness ==
    /\ wktInput = "twopoint"
    /\ timers = <<>>
    /\ ~isProcessing
    /\ error = FormatMsg
    /\ riverData = Null

\* C5: a polygon of 3 or more points whose vertices share one x or one y gets
\* the degenerate-geometry error and riverData null when its callback runs, and
\* riverData never holds such a polygon.
C5_DegenerateRejected ==
    [][TimerStep
         => LET points == HeadPoints
            IN  /\ (/\ Len(points) >= 3
                    /\ (SameCoord(points, "x") \/ SameCoord(points, "y")))
                   => (error' = DegenerateMsg /\ riverData' = Null)
                /\ riverData' # Null
                   => (/\ ~SameCoord(riverData'.points, "x")
                       /\ ~SameCoord(riverData'.points, "y"))]_vars

C5_Witness ==
    /\ wktInput = "flat"
    /\ timers = <<>>
    /\ ~isProcessing
    /\ error = DegenerateMsg
    /\ riverData = Null

\* C6: a text with a coordinate token that is not a number is rejected: no
\* polygon with a not-a-number coordinate is ever accepted into riverData.
C6_BadTokenRejected ==
    riverData # Null => AllNumeric(riverData.points)

C8_LastRequestWins ==
    [][(TimerStep /\ timers' = <<>> /\ error' # EmptyMsg)
         => LET points == HeadPoints
            IN  ValidPolygon(points)
                   => (/\ riverData' # Null
                       /\ riverData'.points = points
                       /\ error' = NoError)]_vars

\* the point pos (rational coordinates) is inside the ring of the integer
\* points, edges included: on an edge, or an odd number of edges crossed by the
\* ray from pos towards +x
InsideOrOn(pos, points) ==
    LET n == Len(points)
        scale == pos.x.d * pos.y.d
        px == pos.x.n * pos.y.d
        py == pos.y.n * pos.x.d
        vx(i) == points[i].x.n * scale
        vy(i) == points[i].y.n * scale
        nx(i) == IF i = n THEN 1 ELSE i + 1
        cross(i) == (vx(nx(i)) - vx(i)) * (py - vy(i))
                    - (vy(nx(i)) - vy(i)) * (px - vx(i))
        between(a, b, c) == (a <= b /\ b <= c) \/ (c <= b /\ b <= a)
        onEdge(i) == /\ cross(i) = 0
                     /\ between(vx(i), px, vx(nx(i)))
                     /\ between(vy(i), py, vy(nx(i)))
        crossed(i) == /\ (vy(i) > py) # (vy(nx(i)) > py)
                      /\ IF vy(nx(i)) > vy(i) THEN cross(i) > 0 ELSE cross(i) < 0
    IN  \/ \E i \in 1..n : onEdge(i)
        \/ Cardinality({i \in 1..n : crossed(i)}) % 2 = 1

\* C9: a label result computed for an accepted polygon of real points that
\* reports isInside has its anchor inside or on the polygon ring.
C9_InsideMeansInside ==
    (/\ riverData # Null
     /\ labelResult # Null
     /\ ~effectDue
     /\ AllNumeric(riverData.points)
     /\ labelResult.isInside)
        => InsideOrOn(labelResult.position, riverData.points)

\* C10: whenever riverData (a polygon of real points) and labelResult are both
\* set, the label position lies within the bounds of the current riverData.
C10_LabelWithinBounds ==
    (riverData # Null /\ labelResult # Null /\ AllNumeric(riverData.points))
        => (/\ JsLeq(riverData.bounds.minX, labelResult.position.x)
            /\ JsLeq(labelResult.position.x, riverData.bounds.maxX)
            /\ JsLeq(riverData.bounds.minY, labelResult.position.y)
            /\ JsLeq(labelResult.position.y, riverData.bounds.maxY))

\* C11: isProcessing is true exactly while some callback scheduled by
\* processWKT has not yet fired, overlapping requests included.
C11_ProcessingIffPending ==
    isProcessing <=> (timers # <<>>)

====
